---- MODULE Spec2Model ----
(***************************************************************************)
(* Model of client/langchain-multiserver-client/langchain-multiserver-     *)
(* client.py: configuration loading, the per-server connection loop inside *)
(* one AsyncExitStack, the interactive query loop, the response print step *)
(* with CustomEncoder, and the unwinding of the exit stack.                *)
(***************************************************************************)
EXTENDS Integers, Sequences, FiniteSets, TLC

VARIABLES pc, SERVER_CONFIG, config, mcp_servers, idx, stack, acquired, closed,
          tools, outcome, agent, lastInput, query, response, printed,
          nInputs, nQueries, nPrinted, nReads, exc, exitCode, stdout

vars == <<pc, SERVER_CONFIG, config, mcp_servers, idx, stack, acquired, closed,
          tools, outcome, agent, lastInput, query, response, printed,
          nInputs, nQueries, nPrinted, nReads, exc, exitCode, stdout>>

(***************************************************************************)
(* Bounds                                                                  *)
(***************************************************************************)
MaxServers == 2
MaxQueries == 1
MaxDepth == 2

None == "None"

\* `response` before the first answer
NoResponse == [k |-> "none"]

(***************************************************************************)
(* Strings are sequences of one-character strings.                         *)
(***************************************************************************)
Whitespace == {" ", "\t"}

LowerChar(c) ==
    CASE c = "Q" -> "q"
      [] c = "U" -> "u"
      [] c = "I" -> "i"
      [] c = "T" -> "t"
      [] c = "H" -> "h"
      [] OTHER -> c

\* str.lower()
Lower(s) == [i \in 1..Len(s) |-> LowerChar(s[i])]

RECURSIVE LStrip(_)
LStrip(s) ==
    IF s # <<>> /\ Head(s) \in Whitespace THEN LStrip(Tail(s)) ELSE s

RECURSIVE RStrip(_)
RStrip(s) ==
    IF s # <<>> /\ s[Len(s)] \in Whitespace
    THEN RStrip(SubSeq(s, 1, Len(s) - 1))
    ELSE s

\* str.strip()
Strip(s) == RStrip(LStrip(s))

quit == <<"q", "u", "i", "t">>

\* variant of IsQuit: query == "quit", the lower() forgotten
IsQuitCaseSensitive(q) == q = quit

\* query.lower() == "quit"
IsQuit(q) == Lower(q) = quit

\* lines the user can type at the prompt
Inputs ==
    { quit,
      <<"Q", "U", "I", "T">>,
      <<"Q", "u", "i", "t">>,
      <<" ", "Q", "U", "I", "T", "\t">>,
      <<>>,
      <<" ", "H", "i", "\t">>,
      <<"q", "u", "i", "t", " ", "x">> }

Reverse(s) == [i \in 1..Len(s) |-> s[Len(s) + 1 - i]]

(***************************************************************************)
(* Python values an agent response is made of.  "str", "list" and "dict"   *)
(* are natively serializable; "obj" is an object that is not, with a       *)
(* `content` attribute; "plain" is an object that is not, without one.     *)
(***************************************************************************)
StrV(s) == [k |-> "str", s |-> s]
ListV(items) == [k |-> "list", items |-> items]
DictV(items) == [k |-> "dict", items |-> items]
ObjV(cls, c) == [k |-> "obj", cls |-> cls, content |-> c]
PlainV(cls) == [k |-> "plain", cls |-> cls]

Classes == {"AIMessage"}
Leaves == {StrV("hi"), PlainV("set")}

RECURSIVE Values(_)
Values(d) ==
    IF d = 0 THEN Leaves
    ELSE LET lower == Values(d - 1)
         IN  lower \cup {ObjV(c, v) : c \in Classes, v \in lower}

\* what agent.ainvoke can return: {"messages": [the query's message, m]}
Responses ==
    {DictV(<<<<"messages", ListV(<<ObjV("HumanMessage", StrV("hi")), m>>)>>>>) :
        m \in Values(MaxDepth)}

Raised(e) == [raised |-> TRUE, exc |-> e, text |-> <<>>]
Returned(t) == [raised |-> FALSE, exc |-> "none", text |-> t]

\* hasattr(o, "content")
HasContent(o) == o.k = "obj"

\* CustomEncoder.default(o)
\* variant of Default: the "type" key left out of the rendering
DefaultTypeOmitted(o) ==
    IF HasContent(o)
    THEN [raised |-> FALSE, value |-> DictV(<<<<"content", o.content>>>>)]
    ELSE [raised |-> TRUE, exc |-> "TypeError"]

Default(o) ==
    IF HasContent(o)
    THEN [raised |-> FALSE,
          value |-> DictV(<<<<"type", StrV(o.cls)>>, <<"content", o.content>>>>)]
    ELSE [raised |-> TRUE, exc |-> "TypeError"]

RECURSIVE Encode(_)
RECURSIVE EncodeItems(_)
RECURSIVE EncodePairs(_)

\* the elements of a list, comma separated
EncodeItems(items) ==
    IF items = <<>> THEN Returned(<<>>)
    ELSE LET h == Encode(Head(items))
             t == EncodeItems(Tail(items))
         IN  IF h.raised THEN h
             ELSE IF t.raised THEN t
             ELSE Returned(h.text \o (IF Tail(items) = <<>> THEN <<>> ELSE <<",">>) \o t.text)

\* the key: value pairs of a dict, comma separated
EncodePairs(items) ==
    IF items = <<>> THEN Returned(<<>>)
    ELSE LET h == Encode(Head(items)[2])
             t == EncodePairs(Tail(items))
         IN  IF h.raised THEN h
             ELSE IF t.raised THEN t
             ELSE Returned(<<"\"", Head(items)[1], "\"", ":">> \o h.text
                           \o (IF Tail(items) = <<>> THEN <<>> ELSE <<",">>) \o t.text)

\* json.JSONEncoder: native types are written directly, anything else goes
\* through default() and the value it returns is encoded in its place
Encode(v) ==
    CASE v.k = "str" -> Returned(<<"\"", v.s, "\"">>)
      [] v.k = "list" ->
            LET r == EncodeItems(v.items)
            IN  IF r.raised THEN r ELSE Returned(<<"[">> \o r.text \o <<"]">>)
      [] v.k = "dict" ->
            LET r == EncodePairs(v.items)
            IN  IF r.raised THEN r ELSE Returned(<<"{">> \o r.text \o <<"}">>)
      [] OTHER ->
            LET d == Default(v)
            IN  IF d.raised THEN Raised(d.exc) ELSE Encode(d.value)

\* json.dumps(response, indent=2, cls=CustomEncoder)
Dumps(resp) == Encode(resp)

RECURSIVE Str(_)
RECURSIVE StrItems(_)
RECURSIVE StrPairs(_)

StrItems(items) ==
    IF items = <<>> THEN <<>>
    ELSE Str(Head(items)) \o (IF Tail(items) = <<>> THEN <<>> ELSE <<",">>)
         \o StrItems(Tail(items))

StrPairs(items) ==
    IF items = <<>> THEN <<>>
    ELSE <<"'", Head(items)[1], "'", ":">> \o Str(Head(items)[2])
         \o (IF Tail(items) = <<>> THEN <<>> ELSE <<",">>) \o StrPairs(Tail(items))

\* str(response): the default string form, defined for every value
Str(v) ==
    CASE v.k = "str" -> <<"'", v.s, "'">>
      [] v.k = "list" -> <<"[">> \o StrItems(v.items) \o <<"]">>
      [] v.k = "dict" -> <<"{">> \o StrPairs(v.items) \o <<"}">>
      [] v.k = "obj" -> <<v.cls, "(", "content", "=">> \o Str(v.content) \o <<")">>
      [] OTHER -> <<"<", v.cls, "object", ">">>

\* lines 153-160: the print step of one loop iteration
\* variant of PrintStep: no try/except around json.dumps
PrintStepNoFallback(resp) ==
    LET r == Dumps(resp)
    IN  IF r.raised THEN [text |-> <<>>, exc |-> r.exc]
        ELSE [text |-> r.text, exc |-> "none"]

PrintStep(resp) ==
    LET r == Dumps(resp)
    IN  IF r.raised THEN [text |-> Str(resp), exc |-> "none"]
        ELSE [text |-> r.text, exc |-> "none"]

(***************************************************************************)
(* Configuration                                                           *)
(***************************************************************************)
AllNames == <<"s1", "s2", "s3", "s4">>
ServerNames == {AllNames[i] : i \in 1..MaxServers}

\* one entry of "mcpServers": its name and the keys its mapping holds
EntryKeys == {{"command", "args"}, {"args"}, {"command"}}
Entries == [name : ServerNames, keys : EntryKeys]

\* the non-empty "mcpServers" mappings, in file order; the names of a mapping
\* are distinct, listed in ascending or in descending order
ServerConfigs ==
    UNION {{s \in [1..m -> Entries] :
               \/ \A i \in 1..m : s[i].name = AllNames[i]
               \/ \A i \in 1..m : s[i].name = AllNames[m + 1 - i]} :
              m \in 1..MaxServers}

\* documents whose config.get("mcpServers", {}) is falsy
EmptyDocs == {"no_key", "empty_mapping", "null"}

DefaultPath == "config.json"

\* variant of ConfigPath: the environment variable ignored
ConfigPathAlwaysDefault(env) == DefaultPath

\* lines 66-73
ConfigPath(env) == IF env = None THEN DefaultPath ELSE env

Warning(env) ==
    IF env = None THEN <<[ev |-> "fallback_warning", arg |-> DefaultPath]>> ELSE <<>>

\* variant of NoServers: `mcp_servers is None`, which the .get default never is
NoServersNever(m) == FALSE

\* `not mcp_servers`
NoServers(m) == m = <<>>

(***************************************************************************)
(* One server's connection attempt (the try body, lines 121-132).          *)
(* res is what the world does: where the attempt fails, or "ok";           *)
(* tl is the tool list the server exposes.                                 *)
(***************************************************************************)
Failures == {"spawn_failed", "session_failed", "initialize_failed", "load_tools_failed"}
ToolLists == {<<>>, <<"t2", "t1">>}

Channel(n) == [kind |-> "channel", server |-> n]
Session(n) == [kind |-> "session", server |-> n]

\* variant of Entered: a failed attempt's contexts are closed and dropped at once
EnteredOnlyOnSuccess(n, res) ==
    IF res = "ok" THEN <<Channel(n), Session(n)>> ELSE <<>>

\* what stack.enter_async_context has registered by the time the attempt ends
Entered(n, res) ==
    CASE res = "spawn_failed" -> <<>>
      [] res = "session_failed" -> <<Channel(n)>>
      [] OTHER -> <<Channel(n), Session(n)>>

\* variant of Appended: tools appended as they are converted, before the failure
AppendedBeforeFailure(n, res, tl) ==
    IF res \in {"ok", "load_tools_failed"}
    THEN [i \in 1..Len(tl) |-> [server |-> n, name |-> tl[i]]]
    ELSE <<>>

\* the tools appended to `tools` by the attempt
Appended(n, res, tl) ==
    IF res = "ok" THEN [i \in 1..Len(tl) |-> [server |-> n, name |-> tl[i]]]
    ELSE <<>>

\* what the attempt prints after "Connecting"
Printed(n, res, tl) ==
    IF res = "ok"
    THEN [i \in 1..Len(tl) |-> [ev |-> "loaded_tool", arg |-> tl[i]]]
         \o <<[ev |-> "tools_loaded", arg |-> n]>>
    ELSE <<[ev |-> "connect_failed", arg |-> n]>>

(***************************************************************************)
(* State                                                                   *)
(***************************************************************************)
Init ==
    /\ pc = "start"
    /\ SERVER_CONFIG \in {None, "mcp.json"}
    /\ config = None
    /\ mcp_servers = <<>>
    /\ idx = 1
    /\ stack = <<>>
    /\ acquired = <<>>
    /\ closed = <<>>
    /\ tools = <<>>
    /\ outcome = <<>>
    /\ agent = FALSE
    /\ lastInput = <<>>
    /\ query = <<>>
    /\ response = NoResponse
    /\ printed = <<>>
    /\ nInputs = 0
    /\ nQueries = 0
    /\ nPrinted = 0
    /\ nReads = 0
    /\ exc = "none"
    /\ exitCode = 0
    /\ stdout = <<>>

setupVars == <<mcp_servers, idx, stack, acquired, tools, outcome>>
loopVars == <<agent, lastInput, query, response, printed, nInputs, nQueries, nPrinted>>

\* read_config_json, lines 75-80: open or json.load fails, sys.exit(1)
ReadConfigFails ==
    /\ pc = "start"
    /\ \E failure \in {"unreadable", "invalid_json"} : config' = failure
    /\ nReads' = nReads + 1
    /\ stdout' = stdout \o Warning(SERVER_CONFIG)
                 \o <<[ev |-> "config_failed", arg |-> ConfigPath(SERVER_CONFIG)]>>
    /\ exc' = "SystemExit"
    /\ exitCode' = 1
    /\ pc' = "done"
    /\ UNCHANGED <<SERVER_CONFIG, closed, setupVars, loopVars>>

\* line 104 on a document that is no mapping: config.get raises
ReadConfigNotMapping ==
    /\ pc = "start"
    /\ config' = "array"
    /\ nReads' = nReads + 1
    /\ stdout' = stdout \o Warning(SERVER_CONFIG)
    /\ exc' = "AttributeError"
    /\ exitCode' = 1
    /\ pc' = "done"
    /\ UNCHANGED <<SERVER_CONFIG, closed, setupVars, loopVars>>

\* lines 103-111: the document is read; no servers, or the stack is entered
ReadConfig ==
    /\ pc = "start"
    /\ nReads' = nReads + 1
    /\ \E doc \in EmptyDocs \cup {"servers"} :
         /\ config' = doc
         /\ \E m \in (IF doc = "servers" THEN ServerConfigs ELSE {<<>>}) :
              /\ mcp_servers' = m
              /\ IF NoServers(m)
                 THEN /\ stdout' = stdout \o Warning(SERVER_CONFIG)
                                   \o <<[ev |-> "no_servers", arg |-> None]>>
                      /\ exitCode' = 0
                      /\ pc' = "done"
                 ELSE /\ stdout' = stdout \o Warning(SERVER_CONFIG)
                      /\ exitCode' = exitCode
                      /\ pc' = "connecting"
    /\ UNCHANGED <<SERVER_CONFIG, idx, stack, acquired, closed, tools, outcome,
                   loopVars, exc>>

\* lines 116-118 on an entry without "command" or "args": KeyError, outside the try
ConnectMalformed ==
    /\ pc = "connecting"
    /\ idx <= Len(mcp_servers)
    /\ mcp_servers[idx].keys # {"command", "args"}
    /\ stdout' = stdout \o <<[ev |-> "connecting", arg |-> mcp_servers[idx].name]>>
    /\ exc' = "KeyError"
    /\ pc' = "exiting"
    /\ UNCHANGED <<SERVER_CONFIG, config, closed, setupVars, loopVars, nReads, exitCode>>

\* lines 113-135: one iteration of the for loop on a well-formed entry
Connect ==
    /\ pc = "connecting"
    /\ idx <= Len(mcp_servers)
    /\ mcp_servers[idx].keys = {"command", "args"}
    /\ LET n == mcp_servers[idx].name
       IN  \E res \in Failures \cup {"ok"} :
           \E tl \in (IF res = "ok" THEN ToolLists
                      ELSE IF res = "load_tools_failed" THEN ToolLists \ {<<>>}
                      ELSE {<<>>}) :
             /\ stack' = stack \o Entered(n, res)
             /\ acquired' = acquired \o Entered(n, res)
             /\ tools' = tools \o Appended(n, res, tl)
             /\ outcome' = Append(outcome, [server |-> n, res |-> res, tl |-> tl])
             /\ stdout' = stdout \o <<[ev |-> "connecting", arg |-> n]>>
                          \o Printed(n, res, tl)
    /\ idx' = idx + 1
    /\ UNCHANGED <<pc, SERVER_CONFIG, config, mcp_servers, closed, loopVars, nReads,
                   exc, exitCode>>

\* variant of NoTools: `tools is None`, which a list never is
NoToolsNever(t) == FALSE

\* `not tools`
NoTools(t) == t = <<>>

\* lines 137-143, after the for loop
CheckTools ==
    /\ pc = "connecting"
    /\ idx > Len(mcp_servers)
    /\ IF NoTools(tools)
       THEN /\ stdout' = Append(stdout, [ev |-> "no_tools", arg |-> None])
            /\ agent' = agent
            /\ pc' = "exiting"
       ELSE /\ stdout' = Append(stdout, [ev |-> "ready", arg |-> None])
            /\ agent' = TRUE
            /\ pc' = "awaiting_input"
    /\ UNCHANGED <<SERVER_CONFIG, config, closed, setupVars, lastInput, query, response,
                   printed, nInputs, nQueries, nPrinted, nReads, exc, exitCode>>

\* lines 146-151: a line is read; it ends the loop or is sent to the agent
ReadInput ==
    /\ pc = "awaiting_input"
    /\ \E raw \in Inputs :
         LET q == Strip(raw)
         IN  /\ IsQuit(q) \/ nQueries < MaxQueries
             /\ lastInput' = raw
             /\ IF IsQuit(q)
                THEN /\ pc' = "exiting"
                     /\ UNCHANGED <<query, nQueries>>
                ELSE /\ pc' = "awaiting_response"
                     /\ query' = q
                     /\ nQueries' = nQueries + 1
    /\ nInputs' = nInputs + 1
    /\ UNCHANGED <<SERVER_CONFIG, config, closed, setupVars, agent, response, printed,
                   nPrinted, nReads, exc, exitCode, stdout>>

\* line 146 at end of input: input() raises EOFError
InputEOF ==
    /\ pc = "awaiting_input"
    /\ exc' = "EOFError"
    /\ pc' = "exiting"
    /\ UNCHANGED <<SERVER_CONFIG, config, closed, setupVars, loopVars, nReads, exitCode,
                   stdout>>

\* lines 151-160: the agent answers and the answer is printed
Respond ==
    /\ pc = "awaiting_response"
    /\ \E resp \in Responses :
         LET p == PrintStep(resp)
         IN  /\ response' = resp
             /\ IF p.exc = "none"
                THEN /\ printed' = p.text
                     /\ nPrinted' = nPrinted + 1
                     /\ pc' = "awaiting_input"
                     /\ exc' = exc
                ELSE /\ UNCHANGED <<printed, nPrinted>>
                     /\ pc' = "exiting"
                     /\ exc' = p.exc
    /\ UNCHANGED <<SERVER_CONFIG, config, closed, setupVars, agent, lastInput, query,
                   nInputs, nQueries, nReads, exitCode, stdout>>

\* line 151: agent.ainvoke raises; nothing in the loop catches it
QueryFails ==
    /\ pc = "awaiting_response"
    /\ exc' = "AgentError"
    /\ pc' = "exiting"
    /\ UNCHANGED <<SERVER_CONFIG, config, closed, setupVars, loopVars, nReads, exitCode,
                   stdout>>

\* variant of Unwound: the callbacks run in the order registered
UnwoundFirstInFirstOut(s) == s

\* AsyncExitStack.__aexit__: the callbacks registered are run last in, first out
Unwound(s) == Reverse(s)

\* line 111, leaving the `async with`, then asyncio.run and the interpreter's exit
ExitStack ==
    /\ pc = "exiting"
    /\ closed' = closed \o Unwound(stack)
    /\ stack' = <<>>
    /\ exitCode' = IF exc = "none" THEN 0 ELSE 1
    /\ pc' = "done"
    /\ UNCHANGED <<SERVER_CONFIG, config, mcp_servers, idx, acquired, tools, outcome,
                   loopVars, nReads, exc, stdout>>

Next ==
    \/ ReadConfigFails
    \/ ReadConfigNotMapping
    \/ ReadConfig
    \/ ConnectMalformed
    \/ Connect
    \/ CheckTools
    \/ ReadInput
    \/ InputEOF
    \/ Respond
    \/ QueryFails
    \/ ExitStack

Spec == Init /\ [][Next]_vars

(***************************************************************************)
(* Properties                                                              *)
(***************************************************************************)
Events == {stdout[i].ev : i \in 1..Len(stdout)}
LastEvent == IF stdout = <<>> THEN None ELSE stdout[Len(stdout)].ev
InLoop == pc \in {"awaiting_input", "awaiting_response"}
LoopEntered == InLoop \/ nInputs > 0 \/ exc = "EOFError"
SetupLoopDone == config = "servers" /\ idx > Len(mcp_servers) /\ pc # "connecting"
Left == pc \in {"exiting", "done"}

\* C1: every configured server is attempted and no failure while handling a
\* server's entry aborts run_agent: once the connection scope is left, the
\* for loop has gone through every entry.
C1_EveryServerAttempted ==
    (config = "servers" /\ Left) =>
        /\ idx > Len(mcp_servers)
        /\ Len(outcome) = Len(mcp_servers)
        /\ exc # "KeyError"

\* C2: when run_agent has finished, every channel and session opened during
\* setup has been closed, in the reverse of the order they were opened, on
\* every way out (quit, no tools, an exception in setup or in a query).
C2_ClosedInReverseOrder ==
    pc = "done" =>
        /\ stack = <<>>
        /\ closed = Reverse(acquired)
        /\ \A i \in 1..Len(outcome) :
             outcome[i].res # "spawn_failed" =>
                \E j \in 1..Len(closed) : closed[j] = Channel(outcome[i].server)

C2_Witness ==
    /\ pc = "done"
    /\ exc = "AgentError"
    /\ Len(closed) >= 3
    /\ closed[1].kind = "session"

RECURSIVE ToolsOf(_)
ToolsOf(o) ==
    IF o = <<>> THEN <<>>
    ELSE LET h == Head(o)
         IN  (IF h.res = "ok"
              THEN [i \in 1..Len(h.tl) |-> [server |-> h.server, name |-> h.tl[i]]]
              ELSE <<>>) \o ToolsOf(Tail(o))

\* C3: the tool collection holds exactly the tools of the servers whose spawn,
\* handshake and tool discovery all succeeded, in configuration order and in
\* the order returned, and nothing of a failed server; after the setup loop a
\* non-empty collection means the agent is built and the loop entered.
C3_ToolsOfSurvivors ==
    /\ tools = ToolsOf(outcome)
    /\ \A i \in 1..Len(outcome) : outcome[i].server = mcp_servers[i].name
    /\ (SetupLoopDone /\ tools # <<>>) =>
          /\ agent
          /\ "ready" \in Events
          /\ LoopEntered

C3_Witness ==
    /\ pc = "awaiting_input"
    /\ Len(outcome) = 2
    /\ outcome[1].res = "load_tools_failed" /\ outcome[1].tl # <<>>
    /\ outcome[2].res = "ok" /\ Len(outcome[2].tl) = 2
    /\ Len(tools) = 2

\* C4: with zero tools loaded across all servers, run_agent reports it and
\* returns; the agent is never built, no input is read and no query issued.
C4_NoToolsNoLoop ==
    (SetupLoopDone /\ tools = <<>>) =>
        /\ LastEvent = "no_tools"
        /\ ~agent
        /\ ~LoopEntered
        /\ nQueries = 0
        /\ exc = "none"
        /\ Left
        /\ pc = "done" => exitCode = 0

C4_Witness ==
    /\ pc = "done"
    /\ LastEvent = "no_tools"
    /\ Len(outcome) = 2
    /\ outcome[1].res = "ok"
    /\ outcome[2].res = "initialize_failed"

\* C5: a configuration with no server entries (empty or absent mapping) is
\* reported and run_agent returns: nothing is spawned, no session opened, the
\* loop never entered.
C5_NoServersNoConnection ==
    config \in EmptyDocs =>
        /\ pc = "done"
        /\ LastEvent = "no_servers"
        /\ outcome = <<>>
        /\ acquired = <<>>
        /\ stack = <<>>
        /\ "connecting" \notin Events
        /\ ~agent
        /\ ~LoopEntered
        /\ exitCode = 0

C5_Witness ==
    /\ config = "no_key"
    /\ pc = "done"
    /\ LastEvent = "no_servers"

\* C6 as stated: an input that equals the exit keyword in some letter-case
\* ends the loop without a query, every other input is one query, and an
\* input is read only when every earlier query has been answered and printed.
C6_AsStated ==
    [][nInputs' = nInputs + 1 =>
         /\ nPrinted = nQueries
         /\ IF Lower(lastInput') = quit
            THEN pc' = "exiting" /\ nQueries' = nQueries /\ exc' = "none"
            ELSE pc' = "awaiting_response" /\ nQueries' = nQueries + 1]_vars

\* C6: an input that, with leading and trailing whitespace removed, equals the
\* exit keyword in some letter-case ends the loop without a query; every other
\* input is one query carrying the stripped text; an input is read only when
\* every earlier query has been answered and printed.
C6_QuitAfterStrip ==
    [][nInputs' = nInputs + 1 =>
         /\ nPrinted = nQueries
         /\ IF Lower(Strip(lastInput')) = quit
            THEN pc' = "exiting" /\ nQueries' = nQueries /\ exc' = "none"
                 /\ query' = query
            ELSE pc' = "awaiting_response" /\ nQueries' = nQueries + 1
                 /\ query' = Strip(lastInput')]_vars

C6_Witness ==
    /\ pc = "exiting"
    /\ exc = "none"
    /\ lastInput = <<" ", "Q", "U", "I", "T", "\t">>
    /\ nInputs = 2
    /\ nQueries = 1
    /\ nPrinted = 1

\* C7: every response received is printed: as JSON, or, when serializing it
\* raises, as its default string form; no exception leaves the print step and
\* the loop goes on to read the next input.
C7_PrintNeverRaises ==
    /\ exc # "TypeError"
    /\ response # NoResponse =>
          /\ nPrinted > 0
          /\ printed # <<>>
          /\ printed = IF Dumps(response).raised THEN Str(response)
                       ELSE Dumps(response).text
    /\ (nPrinted = nQueries /\ agent /\ Left) =>
          \/ exc = "EOFError"
          \/ exc = "none" /\ nInputs = nQueries + 1
    /\ pc = "awaiting_input" => nPrinted = nQueries

C7_Witness ==
    /\ pc = "awaiting_input"
    /\ response # NoResponse
    /\ Dumps(response).raised
    /\ printed = Str(response)
    /\ nPrinted = 1

RECURSIVE Unserializable(_)
Unserializable(v) ==
    CASE v.k = "plain" -> TRUE
      [] v.k = "str" -> FALSE
      [] v.k = "obj" -> Unserializable(v.content)
      [] v.k = "list" -> \E i \in 1..Len(v.items) : Unserializable(v.items[i])
      [] OTHER -> \E i \in 1..Len(v.items) : Unserializable(v.items[i][2])

JsonString(s) == <<"\"", s, "\"">>

RECURSIVE Rendered(_)
Rendered(v) ==
    CASE v.k = "str" -> JsonString(v.s)
      [] v.k = "obj" ->
            <<"{">> \o JsonString("type") \o <<":">> \o JsonString(v.cls) \o <<",">>
            \o JsonString("content") \o <<":">> \o Rendered(v.content) \o <<"}">>
      [] v.k = "list" ->
            IF v.items = <<>> THEN <<"[", "]">>
            ELSE <<"[">> \o Rendered(Head(v.items))
                 \o (IF Len(v.items) = 1 THEN <<"]">>
                     ELSE <<",">> \o Tail(Rendered(ListV(Tail(v.items)))))
      [] v.k = "dict" ->
            IF v.items = <<>> THEN <<"{", "}">>
            ELSE <<"{">> \o JsonString(Head(v.items)[1]) \o <<":">>
                 \o Rendered(Head(v.items)[2])
                 \o (IF Len(v.items) = 1 THEN <<"}">>
                     ELSE <<",">> \o Tail(Rendered(DictV(Tail(v.items)))))
      [] OTHER -> <<>>

\* C9: serializing a response with CustomEncoder renders every nested object
\* that has a `content` attribute as {"type": class name, "content": content},
\* and raises exactly when some nested non-serializable object has none.
C9_ContentObjectsRendered ==
    response # NoResponse =>
        LET d == Dumps(response)
        IN  /\ d.raised <=> Unserializable(response)
            /\ d.raised => d.exc = "TypeError"
            /\ ~d.raised => d.text = Rendered(response)

C9_Witness ==
    /\ response # NoResponse
    /\ ~Dumps(response).raised
    /\ \E i \in 1..Len(response.items[1][2].items) :
         LET m == response.items[1][2].items[i]
         IN  m.k = "obj" /\ m.content.k = "obj"
    /\ printed = Rendered(response)

\* C8: the exit status is 1 when the configuration file cannot be read or
\* parsed, after a diagnostic naming the path, one read and no connection
\* attempt; it is 0 when the exit keyword ended the interactive loop.
C8_ExitStatus ==
    /\ config \in {"unreadable", "invalid_json"} =>
          /\ pc = "done"
          /\ exitCode = 1
          /\ stdout[Len(stdout)] =
                [ev |-> "config_failed",
                 arg |-> IF SERVER_CONFIG = None THEN "config.json" ELSE SERVER_CONFIG]
          /\ nReads = 1
          /\ outcome = <<>>
          /\ acquired = <<>>
          /\ "connecting" \notin Events
    /\ (pc = "done" /\ nInputs > 0 /\ Lower(Strip(lastInput)) = quit) =>
          exitCode = 0

C8_Witness ==
    /\ pc = "done"
    /\ config = "invalid_json"
    /\ SERVER_CONFIG # None
    /\ exitCode = 1

\* C10: nothing is closed before the connection scope ends: a server whose
\* spawn succeeded keeps its channel, and its session if it was opened, on the
\* stack through setup and the whole loop, whatever failed afterwards.
C10_OpenUntilTeardown ==
    pc # "done" =>
        /\ closed = <<>>
        /\ stack = acquired
        /\ \A i \in 1..Len(outcome) :
             LET o == outcome[i]
             IN  /\ o.res # "spawn_failed" =>
                      \E j \in 1..Len(stack) : stack[j] = Channel(o.server)
                 /\ o.res \notin {"spawn_failed", "session_failed"} =>
                      \E j \in 1..Len(stack) : stack[j] = Session(o.server)

C10_Witness ==
    /\ pc = "awaiting_response"
    /\ \E i \in 1..Len(outcome) :
         /\ outcome[i].res = "initialize_failed"
         /\ \E j \in 1..Len(stack) : stack[j] = Session(outcome[i].server)
    /\ closed = <<>>

====
